---- MODULE Spec2Model ----
(***************************************************************************)
(* Phone-verification and account-resolution workflow of src/main.py:      *)
(* the FastAPI routes, the per-visitor session they read and write, the    *)
(* OTP gateway (Twilio Verify) and the account store (Supabase auth users  *)
(* and the "profiles" table).                                              *)
(*                                                                         *)
(* Granularity.  A handler is one action, with one exception: post_verify  *)
(* makes two calls that change the shared store (create_user, then the     *)
(* profile insert), so it is two steps, post_verify (through create_user)  *)
(* and post_verify_insert (the insert, the session write, the response).   *)
(* Gateway calls touch no shared state and the session belongs to one      *)
(* visitor, so they are part of the step that makes them.  A visitor has   *)
(* one request in flight at a time; requests of different visitors         *)
(* interleave.                                                             *)
(*                                                                         *)
(* Session persistence.  request.session is loaded from the visitor's      *)
(* signed cookie and written back when a response starts inside the        *)
(* session middleware (src/main.py:25).  A response made from an           *)
(* HTTPException passes through it, so writes made before the raise are    *)
(* kept; an exception no handler catches is answered outside the session   *)
(* middleware, so the visitor keeps the session it had.                    *)
(***************************************************************************)
EXTENDS Naturals, Sequences, FiniteSets

\* ---------------------------------------------------------------- bounds
NumSessions == 2
MaxAccounts == 2

Sessions == 1..NumSessions
Phones   == {"+15551234567", "+15557654321"}
\* the signup forms submitted: two people, each with a phone of their own
Forms    == {[name |-> "Ada", phone |-> "+15551234567"],
             [name |-> "Bob", phone |-> "+15557654321"]}
\* texts a store exception or error object may carry
ErrTexts == {"duplicate key", "timeout"}

\* what the gateway's "send" call may answer: a status, no status, or no answer
SendOutcomes  == {"pending", "approved", "failed", "nostatus", "raise"}
\* what the gateway's "check" call may answer
CheckOutcomes == {"approved", "pending", "failed", "nostatus", "raise"}
\* supabase.auth.admin.create_user: a user, a response without user, an exception
CreateOutcomes == {"ok", "nouser", "raise"}
\* profiles insert: row stored, response carrying .error, an exception
InsertOutcomes == {"ok", "error", "raise"}
\* profiles select: the matching rows, or an exception
SelectOutcomes == {"ok", "raise"}

\* ------------------------------------------------------- optional values
\* dict.get(key) / a key that is absent: the empty sequence; present: <<v>>
None    == << >>
Some(v) == << v >>
Has(x)  == x # << >>
Val(x)  == x[1]

VARIABLES
  session,    \* session[s]: the visitor's session dict, keys pending_user, signin_phone, user
  accounts,   \* auth users of the store: set of [id, phone, name]
  profiles,   \* rows of the profiles table: set of [id, name, phone]
  inflight,   \* inflight[s]: locals of a POST /verify between create_user and the insert
  last,       \* the step just taken: the request, what its calls answered, its response
  signedOut,  \* history: s signed out and no verification has succeeded in s since
  world       \* the visitors there are and the form values they submit (never changes)

vars == << session, accounts, profiles, inflight, last, signedOut, world >>

EmptySession == [pending_user |-> None, signin_phone |-> None, user |-> None]

\* A step's description: the request, the session it found (before), what the
\* gateway (out) and the store (store) answered, and the response; code 0 means
\* the request has not been answered yet.
Step(s, route) ==
  [sess |-> s, route |-> route, before |-> session[s], code |-> 0, loc |-> "",
   msg |-> "", arg |-> "", out |-> "n/a", store |-> "n/a", name |-> "", phone |-> "",
   id |-> 0, matches |-> 0, rendered |-> None]

Fresh ==
  /\ session = [s \in Sessions |-> EmptySession]
  /\ accounts = {}
  /\ profiles = {}
  /\ inflight = [s \in Sessions |-> None]
  /\ signedOut = [s \in Sessions |-> FALSE]
  /\ last = [sess |-> 1, route |-> "start", before |-> EmptySession, code |-> 0, loc |-> "",
             msg |-> "", arg |-> "", out |-> "n/a", store |-> "n/a", name |-> "", phone |-> "",
             id |-> 0, matches |-> 0, rendered |-> None]

\* one visitor, submitting any of the forms and any phone
Init ==
  /\ Fresh
  /\ world = [visitors |-> {1}, forms |-> Forms, phones |-> Phones]

\* every visitor, all submitting the same name and the same phone
InitRace ==
  /\ Fresh
  /\ world = [visitors |-> Sessions,
              forms |-> {[name |-> "Ada", phone |-> "+15551234567"]},
              phones |-> {"+15551234567"}]

\* ---------------------------------------------------------------- helpers
\* otp_response.get("status") not in ["pending", "approved"]  (negated)
SendAccepted(out) == out \in {"pending", "approved"}

\* mutant: the check's status tested against the list the send's status is tested against
OtpApproved_lax(out) == out \in {"pending", "approved"}

\* mutant: the test of the check's status inverted
OtpApproved_inverted(out) == out # "approved"

\* verify_result.get("status") != "approved"  (negated)
OtpApproved(out) == out = "approved"

\* mutant: the test of the create_user response inverted
UserCreated_inverted(cr) == cr # "ok"

\* not auth_response or not auth_response.user  (negated)
UserCreated(cr) == cr = "ok"

\* mutant: the insert's response never looked at
InsertReportsError_ignored(ins) == FALSE

\* hasattr(profile_response, 'error') and profile_response.error
InsertReportsError(ins) == ins = "error"

\* the store gives a new user an identifier no other user has
NewId == Cardinality(accounts) + 1

\* mutant: name and phone of the row swapped
ProfileData_swapped(user_id, name, phone) == [id |-> user_id, name |-> phone, phone |-> name]

\* mutant: the row built without the id of the user just created
ProfileData_noId(user_id, name, phone) == [id |-> 0, name |-> name, phone |-> phone]

ProfileData(user_id, name, phone) == [id |-> user_id, name |-> name, phone |-> phone]

\* mutant: the identity's phone taken from the name
SignupIdentity_nameAsPhone(user_id, name, phone) == [id |-> user_id, name |-> name, phone |-> name]

SignupIdentity(user_id, name, phone) == [id |-> user_id, name |-> name, phone |-> phone]

\* mutant: the identity's name taken from the row's phone
SigninIdentity_phoneAsName(user_profile) ==
  [id |-> user_profile.id, name |-> user_profile.phone, phone |-> user_profile.phone]

SigninIdentity(user_profile) ==
  [id |-> user_profile.id, name |-> user_profile.name, phone |-> user_profile.phone]

\* mutant: the select without its phone filter
Matching_unfiltered(phone) == profiles

\* .select("*").eq("phone", phone): the matching rows
Matching(phone) == {row \in profiles : row.phone = phone}

\* mutant: the first row of the whole table taken instead of the first match
FirstRow_ofTable(phone) == profiles

\* profile_response.data[0]: the select has no ORDER BY, so the store may put any
\* matching row first
FirstRow(phone) == Matching(phone)

\* HTTPException(status_code, detail) answered inside the session middleware
HttpError(st, code, msg, arg) == [st EXCEPT !.code = code, !.msg = msg, !.arg = arg]

\* mutant: the exception swallowed, the request answered as if nothing had failed
Unhandled_swallowed(st) == [st EXCEPT !.code = 200]

\* an exception no handler catches: the server's own 500 page
Unhandled(st) == [st EXCEPT !.code = 500, !.msg = "Internal Server Error"]

Redirect(st, url, code) == [st EXCEPT !.code = code, !.loc = url]

Idle(s) == ~Has(inflight[s])

\* ---------------------------------------------------------------- routes
home(s) ==
  /\ Idle(s)
  /\ last' = [Step(s, "home") EXCEPT !.code = 200, !.rendered = session[s].user]
  /\ UNCHANGED << session, accounts, profiles, inflight, signedOut, world >>

get_signup(s) ==
  /\ Idle(s)
  /\ last' = [Step(s, "get_signup") EXCEPT !.code = 200]
  /\ UNCHANGED << session, accounts, profiles, inflight, signedOut, world >>

post_signup(s) ==
  /\ Idle(s)
  /\ \E form \in world.forms, out \in SendOutcomes :
       LET name  == form.name
           phone == form.phone
           st == [Step(s, "post_signup") EXCEPT !.name = name, !.phone = phone, !.out = out]
           written == [session[s] EXCEPT !.pending_user = Some([name |-> name, phone |-> phone])]
       IN  IF out = "raise"
           THEN /\ last' = Unhandled(st)
                /\ UNCHANGED session
           ELSE /\ session' = [session EXCEPT ![s] = written]
                /\ last' = IF SendAccepted(out)
                           THEN Redirect(st, "/verify", 302)
                           ELSE HttpError(st, 500, "Failed to send OTP", "")
  /\ UNCHANGED << accounts, profiles, inflight, signedOut, world >>

get_verify(s) ==
  /\ Idle(s)
  /\ last' = IF ~Has(session[s].pending_user)
             THEN Redirect(Step(s, "get_verify"), "/signup", 307)
             ELSE [Step(s, "get_verify") EXCEPT !.code = 200,
                                                 !.phone = Val(session[s].pending_user).phone]
  /\ UNCHANGED << session, accounts, profiles, inflight, signedOut, world >>

\* First step of POST /verify: lines 107-132, through create_user.  The store
\* holds the new user whenever create_user answered with one.
post_verify(s) ==
  /\ Idle(s)
  /\ LET pending == session[s].pending_user
         st0 == Step(s, "post_verify")
     IN  IF ~Has(pending)
         THEN /\ last' = HttpError(st0, 400, "No pending user found. Please sign up first.", "")
              /\ UNCHANGED << accounts, inflight >>
         ELSE \E out \in CheckOutcomes :
              LET phone == Val(pending).phone
                  name  == Val(pending).name
                  st    == [st0 EXCEPT !.name = name, !.phone = phone, !.out = out]
              IN  IF out = "raise"
                  THEN /\ last' = Unhandled(st)
                       /\ UNCHANGED << accounts, inflight >>
                  ELSE IF ~OtpApproved(out)
                  THEN /\ last' = HttpError(st, 400, "OTP verification failed. Please try again.", "")
                       /\ UNCHANGED << accounts, inflight >>
                  ELSE \E cr \in CreateOutcomes :
                       LET called == [st EXCEPT !.store = "create_" \o cr]
                       IN  /\ cr = "ok" => Cardinality(accounts) < MaxAccounts
                           /\ accounts' = IF cr = "ok"
                                          THEN accounts \cup {[id |-> NewId, phone |-> phone, name |-> name]}
                                          ELSE accounts
                           /\ IF cr = "raise"
                              THEN /\ \E err \in ErrTexts :
                                        last' = HttpError(called, 500, "Error creating user in Supabase: ", err)
                                   /\ UNCHANGED inflight
                              ELSE IF ~UserCreated(cr)
                              THEN /\ last' = HttpError(called, 500, "Error creating user in Supabase: ",
                                                        "Supabase user creation response was invalid.")
                                   /\ UNCHANGED inflight
                              ELSE /\ inflight' = [inflight EXCEPT ![s] =
                                                     Some([user_id |-> NewId, name |-> name, phone |-> phone])]
                                   /\ last' = [called EXCEPT !.id = NewId]
  /\ UNCHANGED << session, profiles, signedOut, world >>

\* mutant: the session emptied before the identity is stored
SessionAfterSignup_cleared(sess, identity) == [EmptySession EXCEPT !.user = Some(identity)]

\* the session write of lines 165-166
SessionAfterSignup(sess, identity) == [sess EXCEPT !.user = Some(identity), !.pending_user = None]

\* Second step of POST /verify: lines 134-167, from the profile insert on.  The
\* table holds the row whenever the insert answered without error.
post_verify_insert(s) ==
  /\ Has(inflight[s])
  /\ \E ins \in InsertOutcomes :
       LET l  == Val(inflight[s])
           st == [Step(s, "post_verify") EXCEPT !.name = l.name, !.phone = l.phone,
                                                !.out = "approved", !.id = l.user_id,
                                                !.store = "insert_" \o ins]
       IN  /\ profiles' = IF ins = "ok"
                          THEN profiles \cup {ProfileData(l.user_id, l.name, l.phone)}
                          ELSE profiles
           /\ IF ins = "raise"
              THEN /\ \E err \in ErrTexts :
                        last' = HttpError(st, 500, "Error creating user in Supabase: ", err)
                   /\ UNCHANGED session
              ELSE IF InsertReportsError(ins)
              THEN /\ \E err \in ErrTexts :
                        last' = HttpError(st, 500, "Error creating user in Supabase: ",
                                          "Failed to create user profile: " \o err)
                   /\ UNCHANGED session
              ELSE /\ session' = [session EXCEPT ![s] =
                                    SessionAfterSignup(session[s], SignupIdentity(l.user_id, l.name, l.phone))]
                   /\ last' = Redirect(st, "/", 302)
  /\ inflight' = [inflight EXCEPT ![s] = None]
  /\ signedOut' = [signedOut EXCEPT ![s] = IF last'.code = 302 THEN FALSE ELSE @]
  /\ UNCHANGED << accounts, world >>

\* mutant: sign-out removes the pending signup instead of the identity
signout_wrongKey(s) ==
  /\ Idle(s)
  /\ session' = [session EXCEPT ![s].pending_user = None]
  /\ last' = Redirect(Step(s, "signout"), "/", 302)
  /\ signedOut' = [signedOut EXCEPT ![s] = TRUE]
  /\ UNCHANGED << accounts, profiles, inflight, world >>

signout(s) ==
  /\ Idle(s)
  /\ session' = [session EXCEPT ![s].user = None]
  /\ last' = Redirect(Step(s, "signout"), "/", 302)
  /\ signedOut' = [signedOut EXCEPT ![s] = TRUE]
  /\ UNCHANGED << accounts, profiles, inflight, world >>

get_signin(s) ==
  /\ Idle(s)
  /\ last' = [Step(s, "get_signin") EXCEPT !.code = 200]
  /\ UNCHANGED << session, accounts, profiles, inflight, signedOut, world >>

post_signin(s) ==
  /\ Idle(s)
  /\ \E phone \in world.phones, out \in SendOutcomes :
       LET st == [Step(s, "post_signin") EXCEPT !.phone = phone, !.out = out]
       IN  /\ session' = [session EXCEPT ![s].signin_phone = Some(phone)]
           /\ last' = IF out # "raise" /\ SendAccepted(out)
                      THEN Redirect(st, "/signin/verify", 302)
                      ELSE HttpError(st, 500, "Error during sign-in", "")
  /\ UNCHANGED << accounts, profiles, inflight, signedOut, world >>

get_signin_verify(s) ==
  /\ Idle(s)
  /\ last' = IF ~Has(session[s].signin_phone)
             THEN Redirect(Step(s, "get_signin_verify"), "/signin", 307)
             ELSE [Step(s, "get_signin_verify") EXCEPT !.code = 200,
                                                        !.phone = Val(session[s].signin_phone)]
  /\ UNCHANGED << session, accounts, profiles, inflight, signedOut, world >>

\* mutant: the signin phone left in the session
SessionAfterSignin_kept(sess, identity) == [sess EXCEPT !.user = Some(identity)]

\* the session write of lines 258-259
SessionAfterSignin(sess, identity) == [sess EXCEPT !.user = Some(identity), !.signin_phone = None]

post_signin_verify(s) ==
  /\ Idle(s)
  /\ LET st0 == Step(s, "post_signin_verify")
     IN  IF ~Has(session[s].signin_phone)
         THEN /\ last' = HttpError(st0, 400, "No phone number found. Please sign in first.", "")
              /\ UNCHANGED session
         ELSE \E out \in CheckOutcomes :
              LET phone == Val(session[s].signin_phone)
                  st    == [st0 EXCEPT !.phone = phone, !.out = out]
              IN  IF out = "raise"
                  THEN /\ last' = Unhandled(st)
                       /\ UNCHANGED session
                  ELSE IF ~OtpApproved(out)
                  THEN /\ last' = HttpError(st, 400, "OTP verification failed. Please try again.", "")
                       /\ UNCHANGED session
                  ELSE \E sel \in SelectOutcomes :
                       LET found == [st EXCEPT !.store = "select_" \o sel,
                                               !.matches = Cardinality(Matching(phone))]
                       IN  IF sel = "raise"
                           THEN /\ last' = HttpError(found, 500, "Error during sign-in verification", "")
                                /\ UNCHANGED session
                           ELSE IF Matching(phone) = {}
                           THEN /\ last' = HttpError(found, 404, "No user found with this phone number", "")
                                /\ UNCHANGED session
                           ELSE \E user_profile \in FirstRow(phone) :
                                  /\ session' = [session EXCEPT ![s] =
                                                   SessionAfterSignin(session[s], SigninIdentity(user_profile))]
                                  /\ last' = Redirect([found EXCEPT !.id = user_profile.id,
                                                                    !.name = user_profile.name], "/", 302)
  /\ signedOut' = [signedOut EXCEPT ![s] = IF last'.code = 302 THEN FALSE ELSE @]
  /\ UNCHANGED << accounts, profiles, inflight, world >>

Next ==
  \/ \E s \in world.visitors : home(s)
  \/ \E s \in world.visitors : get_signup(s)
  \/ \E s \in world.visitors : post_signup(s)
  \/ \E s \in world.visitors : get_verify(s)
  \/ \E s \in world.visitors : post_verify(s)
  \/ \E s \in world.visitors : post_verify_insert(s)
  \/ \E s \in world.visitors : signout(s)
  \/ \E s \in world.visitors : get_signin(s)
  \/ \E s \in world.visitors : post_signin(s)
  \/ \E s \in world.visitors : get_signin_verify(s)
  \/ \E s \in world.visitors : post_signin_verify(s)

Spec == Init /\ [][Next]_vars

SpecRace == InitRace /\ [][Next]_vars

\* ================================================================ claims
\* The visitor of the step just taken, and that visitor's session now.
Who == last.sess
Now == session[last.sess]
VerifyRoutes == {"post_verify", "post_signin_verify"}
Redirected(url) == last.code \in {302, 307} /\ last.loc = url

\* C1: the key "user" is written only by a POST /verify or POST /signin/verify
\* whose OTP check answered "approved"; a check that answered anything else (or
\* did not answer) leaves the identity the session had.
C1_OtpApprovedGate ==
  /\ (Has(Now.user) /\ Now.user # last.before.user)
        => (last.route \in VerifyRoutes /\ last.out = "approved")
  /\ (last.route \in VerifyRoutes /\ last.out # "approved")
        => Now.user = last.before.user

\* C1 witness: a check answered "pending" in a session that holds an identity.
C1_Witness ==
  /\ last.route \in VerifyRoutes
  /\ last.out = "pending"
  /\ Has(last.before.user)

\* C2: an accepted POST /signup leaves the submitted {name, phone} as the
\* pending signup, and a POST /verify with an approved OTP and both store calls
\* succeeding adds exactly one account (first step) and exactly one profile row
\* (second step) with that account's id and the pending signup's name and
\* phone, sets the session identity to {id, name, phone} and removes pending_user.
C2_VerifyStep(s) ==
  /\ (last'.route = "post_signup" /\ last'.sess = s /\ last'.code = 302) =>
        session'[s].pending_user = Some([name |-> last'.name, phone |-> last'.phone])
  /\ (~Has(inflight[s]) /\ Has(inflight'[s])) =>
        LET pend == Val(session[s].pending_user)
            l    == Val(inflight'[s])
        IN  /\ l.user_id \notin {a.id : a \in accounts}
            /\ accounts' = accounts \cup {[id |-> l.user_id, phone |-> pend.phone, name |-> pend.name]}
            /\ profiles' = profiles
  /\ (Has(inflight[s]) /\ ~Has(inflight'[s]) /\ last'.code = 302) =>
        LET pend == Val(session[s].pending_user)
            l    == Val(inflight[s])
        IN  /\ accounts' = accounts
            /\ \E a \in accounts : a.id = l.user_id /\ a.phone = pend.phone
            /\ l.user_id \notin {r.id : r \in profiles}
            /\ profiles' = profiles \cup {[id |-> l.user_id, name |-> pend.name, phone |-> pend.phone]}
            /\ session'[s].user = Some([id |-> l.user_id, name |-> pend.name, phone |-> pend.phone])
            /\ ~Has(session'[s].pending_user)

C2_SignupCompletion == [][\A s \in Sessions : C2_VerifyStep(s)]_vars

\* C2 witness: a POST /verify answered with the redirect home.
C2_Witness ==
  /\ last.route = "post_verify"
  /\ last.code = 302
  /\ last.store = "insert_ok"
  /\ Now.user = Some([id |-> last.id, name |-> last.name, phone |-> last.phone])

\* the profile rows with the phone the step just taken passed to the gateway
RowsOfPhone == {r \in profiles : r.phone = last.phone}

\* C3 as claimed: an approved POST /signin/verify for a phone with no profile is
\* answered 404 and the session holds no identity afterwards.
C3_Original ==
  (last.route = "post_signin_verify" /\ last.out = "approved" /\ RowsOfPhone = {})
    => (last.code = 404 /\ ~Has(Now.user))

\* C3 amended: when the lookup returns (no exception), the request is answered
\* 404 and leaves the session as it found it: no identity is written, a session
\* that held none holds none, and an identity held before stays.
C3_UnknownPhone ==
  (last.route = "post_signin_verify" /\ last.out = "approved" /\ RowsOfPhone = {}
     /\ last.store = "select_ok")
    => (last.code = 404 /\ Now = last.before)

\* C3 witness: the 404 in a session that holds an identity, the store holding a
\* profile of another phone.
C3_Witness ==
  /\ last.route = "post_signin_verify"
  /\ last.code = 404
  /\ RowsOfPhone = {}
  /\ profiles # {}
  /\ Has(Now.user)

\* C4 as claimed: an approved POST /signin/verify for a phone with exactly one
\* profile sets the identity to that profile's id, name and phone and removes
\* signin_phone.
C4_Original ==
  (last.route = "post_signin_verify" /\ last.out = "approved" /\ Cardinality(RowsOfPhone) = 1)
    => (/\ \E r \in RowsOfPhone : Now.user = Some([id |-> r.id, name |-> r.name, phone |-> r.phone])
        /\ ~Has(Now.signin_phone))

\* C4 amended: the same, when the lookup returns its row (no exception).
C4_KnownPhone ==
  (last.route = "post_signin_verify" /\ last.out = "approved" /\ Cardinality(RowsOfPhone) = 1
     /\ last.store = "select_ok")
    => (/\ last.code = 302
        /\ \E r \in RowsOfPhone : Now.user = Some([id |-> r.id, name |-> r.name, phone |-> r.phone])
        /\ ~Has(Now.signin_phone))

\* C4 witness: a sign-in that replaced the identity of another account.
C4_Witness ==
  /\ last.route = "post_signin_verify"
  /\ last.code = 302
  /\ Cardinality(RowsOfPhone) = 1
  /\ Has(last.before.user)
  /\ last.before.user # Now.user

\* C5 as claimed: a request to a verify page, GET or POST, in a session without
\* the pending state of that workflow is answered with a redirect to the form
\* of the workflow and leaves the session unchanged.
C5_MissingPreconditionRedirects ==
  /\ (last.route \in {"get_verify", "post_verify"} /\ ~Has(last.before.pending_user))
        => (Redirected("/signup") /\ Now = last.before)
  /\ (last.route \in {"get_signin_verify", "post_signin_verify"} /\ ~Has(last.before.signin_phone))
        => (Redirected("/signin") /\ Now = last.before)

\* C6: after GET /signout the session holds no identity, and as long as no
\* verification has succeeded in the session since, it holds none and GET /
\* renders with user absent.
C6_SignOut ==
  /\ last.route = "signout" => ~Has(Now.user)
  /\ \A s \in Sessions : signedOut[s] => ~Has(session[s].user)
  /\ (last.route = "home" /\ signedOut[Who]) => ~Has(last.rendered)

\* C6 witness: GET / after the sign-out of a session that was authenticated
\* (its pending signup is gone, so a verification had succeeded).
C6_Witness ==
  /\ last.route = "home"
  /\ signedOut[Who]
  /\ ~Has(last.rendered)
  /\ profiles # {}

\* C7 as claimed: a session holds at most one of pending_user, signin_phone, user.
C7_Original ==
  \A s \in Sessions :
    Cardinality({k \in {"pending_user", "signin_phone", "user"} : Has(session[s][k])}) <= 1

\* C7 amended: what a successful verification leaves is the identity without
\* the pending state of the workflow verified (pending_user after POST /verify,
\* signin_phone after POST /signin/verify); apart from that the three may
\* coexist.
C7_VerifiedPendingCleared ==
  /\ (last.route = "post_verify" /\ last.code = 302)
        => (Has(Now.user) /\ ~Has(Now.pending_user))
  /\ (last.route = "post_signin_verify" /\ last.code = 302)
        => (Has(Now.user) /\ ~Has(Now.signin_phone))

\* C7 witness: a successful sign-in that leaves a pending signup beside the identity.
C7_Witness ==
  /\ last.route = "post_signin_verify"
  /\ last.code = 302
  /\ Has(Now.pending_user)
  /\ Has(Now.user)

\* C8 as claimed: when the gateway answers the send with a status other than
\* pending or approved, POST /signup (POST /signin) is answered 500 and the
\* session has not taken the submitted pending signup (signin phone).
C8_ChallengeSendGuard ==
  /\ (last.route = "post_signup" /\ last.out \in {"failed", "nostatus"})
        => (/\ last.code = 500
            /\ Now.pending_user = Some([name |-> last.name, phone |-> last.phone])
                 => last.before.pending_user = Now.pending_user)
  /\ (last.route = "post_signin" /\ last.out \in {"failed", "nostatus"})
        => (/\ last.code = 500
            /\ Now.signin_phone = Some(last.phone)
                 => last.before.signin_phone = Now.signin_phone)

\* C9: in a POST /verify with an approved OTP, when create_user answers without
\* user or raises, or the profile insert reports an error or raises, the request
\* is answered 500, the identity is not written and the pending signup stays.
C9_ProvisioningFailure ==
  (last.route = "post_verify" /\ last.out = "approved"
     /\ last.store \in {"create_nouser", "create_raise", "insert_error", "insert_raise"})
    => (/\ last.code = 500
        /\ Now.user = last.before.user
        /\ Has(Now.pending_user)
        /\ Now.pending_user = last.before.pending_user)

\* C9 witness: the insert reported an error after the account was created.
C9_Witness ==
  /\ last.route = "post_verify"
  /\ last.store = "insert_error"
  /\ last.code = 500
  /\ \E a \in accounts : a.id = last.id

\* C10: nothing in POST /verify looks at the accounts the phone already has: an
\* approved check followed by a create_user that answers with a user puts the
\* request past the first step, and an insert that succeeds authenticates the
\* session, whatever other visitors have done or are doing with the same phone.
C10_SamePhoneRace ==
  /\ (last.route = "post_verify" /\ last.store = "create_ok")
        => (/\ last.code = 0
            /\ Has(inflight[Who])
            /\ \E a \in accounts : a.id = last.id /\ a.phone = last.phone)
  /\ (last.route = "post_verify" /\ last.store = "insert_ok")
        => (/\ last.code = 302
            /\ Now.user = Some([id |-> last.id, name |-> last.name, phone |-> last.phone]))

\* C10 witness: two visitors authenticated for the same phone with two accounts
\* and two profiles; the one answered last holds the older account, so the other
\* visitor's whole request ran between its two steps.
C10_Witness ==
  /\ last.route = "post_verify"
  /\ last.code = 302
  /\ \E t \in Sessions \ {Who} :
       /\ Has(session[t].user)
       /\ Val(session[t].user).phone = last.phone
       /\ Val(session[t].user).id > last.id
  /\ Cardinality({a \in accounts : a.phone = last.phone}) = 2
  /\ Cardinality(RowsOfPhone) = 2

\* the answers of the store that make a request fail in provisioning or lookup
StoreFailures == {"create_nouser", "create_raise", "insert_error", "insert_raise", "select_raise"}

\* C11 as claimed: the detail of a response to a request that failed in
\* provisioning or lookup carries nothing of the text of the store's error, so
\* two runs that differ only in that text are answered alike.
C11_NoInternalDetail ==
  (last.store \in StoreFailures \/ last.code = 404)
    => \A e \in ErrTexts : last.arg \notin {e, "Failed to create user profile: " \o e}

\* the routes that call the gateway
GatewayRoutes == {"post_signup", "post_signin", "post_verify", "post_signin_verify"}

\* C12: when the gateway call of POST /signup, POST /signin, POST /verify or
\* POST /signin/verify raises, the request is answered 500 with a fixed text,
\* the identity of the session is the one it had, the request is over, and
\* every visitor without a request in flight can have a next request served.
C12_TransportFailure ==
  (last.route \in GatewayRoutes /\ last.out = "raise")
    => (/\ last.code = 500
        /\ last.msg \in {"Internal Server Error", "Error during sign-in"}
        /\ last.arg = ""
        /\ Now.user = last.before.user
        /\ Idle(Who)
        /\ \A s \in world.visitors : Idle(s) => ENABLED home(s))

\* C12 witness: the check of a POST /verify raised in a session that holds an
\* identity, while another visitor is between the two steps of a POST /verify.
C12_Witness ==
  /\ last.route = "post_verify"
  /\ last.out = "raise"
  /\ last.code = 500
  /\ Has(Now.user)
  /\ \E t \in Sessions \ {Who} : Has(inflight[t])

\* C13: a POST /verify or POST /signin/verify whose check answered a status
\* other than "approved" (or no status) is answered 400 and leaves the session
\* exactly as it found it, pending state included; a POST /signin/verify whose
\* lookup returned no profile is answered 404 and likewise leaves the session,
\* signin_phone included.
C13_FailedCheckKeepsPending ==
  /\ (last.route \in VerifyRoutes /\ last.out \in {"pending", "failed", "nostatus"})
        => (/\ last.code = 400
            /\ Now = last.before
            /\ last.route = "post_verify" => Has(Now.pending_user)
            /\ last.route = "post_signin_verify" => Has(Now.signin_phone))
  /\ (last.route = "post_signin_verify" /\ last.out = "approved"
        /\ last.store = "select_ok" /\ RowsOfPhone = {})
        => (/\ last.code = 404
            /\ Now = last.before
            /\ Now.signin_phone = Some(last.phone))

\* C13 witness: a failed check of POST /signin/verify in a session that holds
\* all three keys.
C13_Witness ==
  /\ last.route = "post_signin_verify"
  /\ last.out = "failed"
  /\ last.code = 400
  /\ Has(Now.pending_user)
  /\ Has(Now.signin_phone)
  /\ Has(Now.user)

\* C14: in a step that changes pending_user of session s, the step is a request
\* of s and either a POST /signup, which leaves the submitted form there, or a
\* POST /verify answered with the redirect home, which leaves the key absent;
\* in a step that changes signin_phone of s, it is a POST /signin of s, which
\* leaves the submitted phone, or a POST /signin/verify of s answered with the
\* redirect home, which leaves the key absent.  Every other step (sign-out and
\* the success of the other workflow among them) leaves the two keys alone.
C14_PendingStep(s) ==
  /\ session'[s].pending_user # session[s].pending_user
        => /\ last'.sess = s
           /\ \/ /\ last'.route = "post_signup"
                 /\ session'[s].pending_user = Some([name |-> last'.name, phone |-> last'.phone])
              \/ /\ last'.route = "post_verify"
                 /\ last'.code = 302
                 /\ ~Has(session'[s].pending_user)
  /\ session'[s].signin_phone # session[s].signin_phone
        => /\ last'.sess = s
           /\ \/ /\ last'.route = "post_signin"
                 /\ session'[s].signin_phone = Some(last'.phone)
              \/ /\ last'.route = "post_signin_verify"
                 /\ last'.code = 302
                 /\ ~Has(session'[s].signin_phone)

C15_Original ==
  (last.route = "post_signin_verify" /\ last.code = 302) => Cardinality(RowsOfPhone) = 1

\* C15 amended: a POST /signin/verify authenticates the session only when at
\* least one profile has the phone, and the identity is that of one of the
\* profiles with the phone; when two or more profiles share the phone and the
\* lookup returns, the session is authenticated as one of them.
C15_AtLeastOneMatch ==
  /\ (last.route = "post_signin_verify" /\ last.code = 302)
        => (/\ Cardinality(RowsOfPhone) >= 1
            /\ \E r \in RowsOfPhone : Now.user = Some([id |-> r.id, name |-> r.name, phone |-> r.phone]))
  /\ (last.route = "post_signin_verify" /\ last.out = "approved" /\ last.store = "select_ok"
        /\ Cardinality(RowsOfPhone) >= 2)
        => (/\ last.code = 302
            /\ \E r \in RowsOfPhone : Now.user = Some([id |-> r.id, name |-> r.name, phone |-> r.phone]))

\* C15 witness: a session without identity signed in for a phone that two
\* profiles share.
C15_Witness ==
  /\ last.route = "post_signin_verify"
  /\ last.code = 302
  /\ Cardinality(RowsOfPhone) = 2
  /\ ~Has(last.before.user)
  /\ Has(Now.user)

\* C16 as claimed: after GET /signout the session is cleared: it holds no
\* identity, no pending signup and no signin phone.
C16_SignOutClearsSession ==
  last.route = "signout" => Now = EmptySession

\* C17 as claimed: POST /signin looks the submitted phone up in the store before
\* it sends the OTP: for a phone no profile has, the gateway is not called and
\* the session does not take the phone as its signin phone.
C17_SigninChecksExistence ==
  (last.route = "post_signin" /\ RowsOfPhone = {})
    => (/\ last.out = "n/a"
        /\ Now.signin_phone = last.before.signin_phone)

\* C18, the states: every profile row has the id and the phone of an account,
\* so rows never outnumber accounts; and after a POST /verify whose insert
\* failed, the account it created is in the store and no row has its id.
C18_Linkage ==
  /\ \A r \in profiles : \E a \in accounts : a.id = r.id /\ a.phone = r.phone
  /\ Cardinality(profiles) <= Cardinality(accounts)
  /\ (last.route = "post_verify" /\ last.store \in {"insert_error", "insert_raise"})
        => (/\ \E a \in accounts : a.id = last.id /\ a.phone = last.phone
            /\ \A r \in profiles : r.id # last.id)

\* C18, the steps: no step removes an account, and every approved POST /verify
\* whose create_user answers with a user adds one account for the phone of the
\* pending signup, whatever accounts that phone already has.
C18_NoRollback ==
  /\ accounts \subseteq accounts'
  /\ (last'.route = "post_verify" /\ last'.store = "create_ok")
        => (/\ last'.id \notin {a.id : a \in accounts}
            /\ accounts' = accounts \cup {[id |-> last'.id, phone |-> last'.phone, name |-> last'.name]}
            /\ Cardinality(accounts') = Cardinality(accounts) + 1)

\* C18: profiles stay linked to accounts, and accounts are never rolled back.
C18_StoreLinkage == []C18_Linkage /\ [][C18_NoRollback]_vars

\* C18 witness: the retry of a POST /verify has created a second account for
\* the phone, the first one being left without profile by the insert that failed.
C18_Witness ==
  /\ last.route = "post_verify"
  /\ last.store = "create_ok"
  /\ \E a \in accounts :
       /\ a.id # last.id
       /\ a.phone = last.phone
       /\ \A r \in profiles : r.id # a.id

\* C19: when a POST /verify or POST /signin/verify writes the identity, the
\* check of that request answered "approved" for the phone of the pending state
\* the request found (pending_user.phone, resp. signin_phone), and the phone of
\* the identity is that phone; after POST /verify the name of the identity is
\* the name of that pending signup.  The pending state is the form of the last
\* POST /signup that its handler answered, resp. the phone of the last POST /signin.
C19_VerifiedPhoneBindsIdentity ==
  /\ (last.route = "post_verify" /\ last.code = 302)
        => (/\ last.out = "approved"
            /\ Has(last.before.pending_user)
            /\ last.phone = Val(last.before.pending_user).phone
            /\ Has(Now.user)
            /\ Val(Now.user).phone = last.phone
            /\ Val(Now.user).name = Val(last.before.pending_user).name)
  /\ (last.route = "post_signin_verify" /\ last.code = 302)
        => (/\ last.out = "approved"
            /\ last.before.signin_phone = Some(last.phone)
            /\ Has(Now.user)
            /\ Val(Now.user).phone = last.phone)
  /\ (last.route = "post_signup" /\ last.out # "raise")
        => Now.pending_user = Some([name |-> last.name, phone |-> last.phone])
  /\ last.route = "post_signin" => Now.signin_phone = Some(last.phone)

\* C19 witness: a POST /verify authenticated a session that held the identity
\* of another phone (so the pending signup had been overwritten since) and the
\* signin phone of an unfinished sign-in for another phone.
C19_Witness ==
  /\ last.route = "post_verify"
  /\ last.code = 302
  /\ Has(last.before.user)
  /\ Val(last.before.user).phone # last.phone
  /\ Has(last.before.signin_phone)
  /\ Val(last.before.signin_phone) # last.phone
  /\ Val(Now.user).phone = last.phone
====
